---- MODULE Spec2Model ----
(***************************************************************************)
(* The nomination-and-vote engine of botcbot: lib/logic/Day.py (Day) and   *)
(* lib/logic/Vote.py (Vote).  Players are integers: the seated players are *)
(* 0 .. NumSeats-1, named by their seat, and ST is the first storyteller.  *)
(* Vote objects live in the sequence vobj and are named by their index.    *)
(* Vote.majority is a float that is always a multiple of 1/2; the field    *)
(* majority2 holds twice its value.                                        *)
(***************************************************************************)
EXTENDS Integers, Sequences, FiniteSets, TLC

\* ------------------------------------------------------------- bounds
\* seats of the game whose day is played through (Spec)
NumSeats == 2
\* seats of the largest game a Vote is constructed for (SpecCtor)
CtorSeats == 5
\* Vote objects constructed in one day
MaxVotes == 2
\* prevote commands issued in one day
MaxPrevotes == 1
\* the length at which the exploration of Vote.__init__'s insertion loop stops
MaxOrderLen == 7
\* seats of the game whose single vote is followed turn by turn (SpecTurns)
TurnSeats == 3
\* prevote commands issued during that vote
MaxTurnPrevotes == 2
\* effects on one player
MaxEffects == 1
\* the greatest day-counter of an effect
MaxDays == 3

\* ---------------------------------------------------------- constants
ST == -1
NoVote == 0
None == <<>>
NominationAllowance == 1

Max(a, b) == IF a >= b THEN a ELSE b
Range(s) == {s[i] : i \in 1 .. Len(s)}

Players == 0 .. (Max(NumSeats, CtorSeats) - 1)
Everyone == Players \cup {ST}
\* the seating order of a game of n players
Seating(n) == [i \in 1 .. n |-> i - 1]

VARIABLES
    seating_order,       \* Game.seating_order
    ghost,               \* Player.ghost(game, registers=True), per player
    dead_votes,          \* Player.dead_votes
    nominations_today,   \* Player.nominations_today
    has_been_nominated,  \* Player.has_been_nominated
    statuses,            \* Player.is_status: traveler, can_vote_twice, can_dead_vote_without_token
    is_pms,              \* Day.is_pms
    is_noms,             \* Day.is_noms
    past_votes,          \* Day.past_votes (vote indices)
    current_vote,        \* Day.current_vote (vote index or NoVote)
    about_to_die,        \* Day.about_to_die: None or <<player, votes, message id>>
    vote_end_messages,   \* Day.vote_end_messages
    msg_edits,           \* ids of end-of-vote messages edited to "... not about to be ..."
    vobj,                \* the Vote objects constructed so far
    pc,                  \* "idle"; "ctor" while Vote.__init__'s insertion loop runs;
                         \* "day_end_cancel", "day_end_archive": Day.end is before line 171, 183
    ctor_i,              \* the list iterator's index in that loop
    prompt,              \* the pending get_bool_input of prevote: None or <<vote, voter, vt>>
    prevotes_issued,     \* history: the number of prevote commands so far
    resolved,            \* history: <<vote, "end" or "cancel">> of every resolution that took effect
    last,                \* history: the operation that made the last step, and what it did:
                         \* the votes it accepted, the resolution by end(), the "no dead
                         \* votes" notices <<voter passed over, recipient>> it sent, and
                         \* whether it raised IndexError
    effects,             \* Player.effects, per player: a list of Effect objects
    impaired,            \* Player.is_status: drunk, poisoned, used_ability
    past_days,           \* Game.past_days: how many times this Day is in it
    current_day,         \* Game.current_day is this Day
    hook_calls,          \* history: <<player, hook, result>> of every hook the last operation invoked
    body_calls,          \* history: the call-throughs of the last gated ability call
    outcome              \* history: what the last ability or targeting call returned or raised

vars == <<seating_order, ghost, dead_votes, nominations_today, has_been_nominated,
          statuses, is_pms, is_noms, past_votes, current_vote, about_to_die,
          vote_end_messages, msg_edits, vobj, pc, ctor_i, prompt, prevotes_issued,
          resolved, last, effects, impaired, past_days, current_day,
          hook_calls, body_calls, outcome>>

\* the state of the characters, the effects and the day's end
enginevars == <<effects, impaired, past_days, current_day,
                hook_calls, body_calls, outcome>>

\* --------------------------------------------------------- list helpers
\* list.index(x): the 0-based index of the first occurrence
RECURSIVE IndexFrom(_, _, _)
IndexFrom(s, x, i) ==
    IF i > Len(s) THEN -1
    ELSE IF s[i] = x THEN i - 1
    ELSE IndexFrom(s, x, i + 1)

Index(s, x) == IndexFrom(s, x, 1)

\* list.insert(i, x) with a 0-based i in 0 .. len
Insert(s, i, x) == SubSeq(s, 1, i) \o <<x>> \o SubSeq(s, i + 1, Len(s))

\* s[i:] and s[:i] with a 0-based i
SliceFrom(s, i) == SubSeq(s, i + 1, Len(s))
SliceTo(s, i) == SubSeq(s, 1, i)

\* --------------------------------------------------------------- Player
is_traveler(p) == p \in statuses.traveler
is_storyteller(p) == p = ST
can_vote_twice(p) == p \in statuses.can_vote_twice
can_dead_vote_without_token(p) == p \in statuses.can_dead_vote_without_token

\* Player.can_vote(game, traveler)
can_vote(gh, dv, p, traveler) ==
    traveler \/ ~gh[p] \/ dv[p] > 0 \/ can_dead_vote_without_token(p)

\* Player.vote_value(game, traveler)
vote_value(p, traveler) == 1

\* Player.can_nominate(game)
can_nominate(p) == nominations_today[p] < NominationAllowance

\* Player.can_be_nominated(game, nominator)
can_be_nominated(p, nominator) == ~has_been_nominated[p]

\* ----------------------------------------------------- Vote.__init__
\* mutant: the rotation starts at the nominee's seat
InitialOrderFromNominee(seating, nominee, storyteller) ==
    IF storyteller THEN seating
    ELSE SliceFrom(seating, Index(seating, nominee))
         \o SliceTo(seating, Index(seating, nominee))

\* lines 70-79: the order before the double voters are inserted
InitialOrder(seating, nominee, storyteller) ==
    IF storyteller THEN seating
    ELSE SliceFrom(seating, Index(seating, nominee) + 1)
         \o SliceTo(seating, Index(seating, nominee) + 1)

NotGhostCount(order, gh) == Cardinality({i \in 1 .. Len(order) : ~gh[order[i]]})

\* mutant: a later nomination needs only to tie the leader
InitialMajority2Tie(order, traveler, gh, atd) ==
    IF traveler THEN Len(order)
    ELSE IF atd # None
         THEN Max(NotGhostCount(order, gh), 2 * atd[2])
         ELSE NotGhostCount(order, gh)

\* mutant: ghosts are left out of a traveler vote's majority too
InitialMajority2NoGhosts(order, traveler, gh, atd) ==
    IF atd # None /\ ~traveler
    THEN Max(NotGhostCount(order, gh), 2 * (atd[2] + 1))
    ELSE NotGhostCount(order, gh)

\* lines 81-98: twice the majority
InitialMajority2(order, traveler, gh, atd) ==
    IF traveler THEN Len(order)
    ELSE IF atd # None
         THEN Max(NotGhostCount(order, gh), 2 * (atd[2] + 1))
         ELSE NotGhostCount(order, gh)

NewVote(seating, nominee, nominator, gh, atd) ==
    LET order == InitialOrder(seating, nominee, is_storyteller(nominee))
    IN  [ nominee     |-> nominee,
          nominator   |-> nominator,
          traveler    |-> is_traveler(nominee),
          storyteller |-> is_storyteller(nominee),
          prevotes    |-> << >>,
          position    |-> 0,
          votes       |-> 0,
          voted       |-> << >>,
          order       |-> order,
          majority2   |-> InitialMajority2(order, is_traveler(nominee), gh, atd) ]

\* ------------------------------------------------------------ the world
\* What vote(), call_next() and end() read and write, as one record.
World ==
    [ vobj |-> vobj, dead_votes |-> dead_votes, ghost |-> ghost,
      is_pms |-> is_pms, is_noms |-> is_noms, past_votes |-> past_votes,
      current_vote |-> current_vote, about_to_die |-> about_to_die,
      vote_end_messages |-> vote_end_messages, msg_edits |-> msg_edits,
      accepted |-> 0, ended |-> None, notices |-> << >>, raised |-> FALSE ]

\* mutant: the tally has to exceed the majority
ResultStrict(votes, majority2) == 2 * votes > majority2

\* Vote._generate_vote_end_message, line 266
Result(votes, majority2) == 2 * votes >= majority2

\* mutant: a tie with the leader is not looked at
UpdateOldOnlyOnResult(w, v, result) ==
    IF w.about_to_die # None /\ result
    THEN [w EXCEPT !.msg_edits = Append(@, w.about_to_die[3])]
    ELSE w

\* mutant: every failed vote clears the leader
UpdateOldOnAnyFailure(w, v, result) ==
    IF w.about_to_die # None
    THEN [w EXCEPT !.msg_edits = Append(@, w.about_to_die[3]),
                   !.about_to_die = IF ~result THEN None ELSE @]
    ELSE w

\* Vote._update_old_vote_end_message
UpdateOldVoteEndMessage(w, v, result) ==
    IF w.about_to_die # None
       /\ (result \/ w.vobj[v].votes = w.about_to_die[2])
    THEN [w EXCEPT !.msg_edits = Append(@, w.about_to_die[3]),
                   !.about_to_die = IF ~result THEN None ELSE @]
    ELSE w

\* Vote.end, lines 224-236
NonTravelerCleanup(w, v, result, end_msg) ==
    LET w1 == UpdateOldVoteEndMessage(w, v, result)
    IN  IF result
        THEN [w1 EXCEPT !.about_to_die =
                 <<w.vobj[v].nominee, w.vobj[v].votes, end_msg>>]
        ELSE w1

\* Character.exile of the nominee
Exile(w, p) == [w EXCEPT !.ghost[p] = TRUE]

\* Vote.end, lines 209-242.  The id of the end-of-vote message is fresh.
Resolve(w, v) ==
    LET result  == Result(w.vobj[v].votes, w.vobj[v].majority2)
        end_msg == Len(w.vote_end_messages) + 1
        w1 == [w EXCEPT !.past_votes = Append(@, v),
                        !.current_vote = NoVote,
                        !.vote_end_messages = Append(@, end_msg),
                        !.ended = <<v, result, w.about_to_die, end_msg>>]
        w2 == IF w.vobj[v].traveler /\ result
              THEN Exile(w1, w.vobj[v].nominee) ELSE w1
        w3 == [w2 EXCEPT !.is_pms = TRUE, !.is_noms = TRUE]
    IN  IF ~w.vobj[v].traveler
        THEN NonTravelerCleanup(w3, v, result, end_msg)
        ELSE w3

\* mutant: end() without its guard
DoEndUnguarded(w, v) == Resolve(w, v)

\* Vote.end
DoEnd(w, v) == IF w.current_vote = v THEN Resolve(w, v) ELSE w

\* mutant: a yes vote moves the position a second time
CastVoteTwice(w, v, voter, vt) ==
    LET o  == w.vobj[v]
        w1 == [w EXCEPT !.vobj[v].position = @ + 1]
    IN  IF vt = 1
        THEN [w1 EXCEPT
                !.vobj[v].position = @ + 1,
                !.vobj[v].votes = @ + vote_value(voter, o.traveler),
                !.dead_votes[voter] =
                    IF ~o.traveler /\ w.ghost[voter]
                       /\ ~can_dead_vote_without_token(voter)
                    THEN @ - 1 ELSE @,
                !.vobj[v].voted = Append(@, voter)]
        ELSE w1

\* Vote.vote, lines 126-144: the accepted vote itself
CastVote(w, v, voter, vt) ==
    LET o  == w.vobj[v]
        w1 == [w EXCEPT !.vobj[v].position = @ + 1]
    IN  IF vt = 1
        THEN [w1 EXCEPT
                !.vobj[v].votes = @ + vote_value(voter, o.traveler),
                !.dead_votes[voter] =
                    IF ~o.traveler /\ w.ghost[voter]
                       /\ ~can_dead_vote_without_token(voter)
                    THEN @ - 1 ELSE @,
                !.vobj[v].voted = Append(@, voter)]
        ELSE w1

\* mutant: vote() takes the vote of any voter
IsToVoteAnyone(o, voter) == TRUE

\* Vote.vote, line 122: voter == self.to_vote
IsToVote(o, voter) == voter = o.order[o.position + 1]

\* Vote.call_next line 167: safe_send(self.to_vote.member, ...) after vote()
\* has returned.  to_vote is read again, at the position vote() has left; it
\* raises IndexError when that is len(order), and an exception raised further
\* in leaves through this frame.
NoDeadVotesNotice(w, v, passed_over) ==
    LET o == w.vobj[v]
    IN  IF w.raised THEN w
        ELSE IF o.position >= Len(o.order) THEN [w EXCEPT !.raised = TRUE]
        ELSE [w EXCEPT !.notices = Append(@, <<passed_over, o.order[o.position + 1]>>)]

RECURSIVE DoVote(_, _, _, _), CallNext(_, _)

\* mutant: a recorded prevote is applied before the voter's dead votes are
\* looked at
CallNextPrevoteFirst(w, v) ==
    LET o       == w.vobj[v]
        to_vote == o.order[o.position + 1]
    IN  IF to_vote \in DOMAIN o.prevotes
        THEN DoVote(w, v, to_vote, o.prevotes[to_vote])
        ELSE IF ~can_vote(w.ghost, w.dead_votes, to_vote, o.traveler)
        THEN NoDeadVotesNotice(DoVote(w, v, to_vote, 0), v, to_vote)
        ELSE w

\* mutant: the last voter's vote does not end the vote
DoVoteWithoutEnd(w, v, voter, vt) ==
    LET o == w.vobj[v]
    IN  IF o.position >= Len(o.order) THEN [w EXCEPT !.raised = TRUE]
        ELSE IF ~IsToVote(o, voter) THEN w
        ELSE LET w1 == CastVote([w EXCEPT !.accepted = @ + 1], v, voter, vt)
             IN  IF w1.vobj[v].position # Len(o.order)
                 THEN CallNext(w1, v)
                 ELSE w1

\* Vote.vote.  Vote.to_vote raises IndexError once position = len(order).
DoVote(w, v, voter, vt) ==
    LET o == w.vobj[v]
    IN  IF o.position >= Len(o.order) THEN [w EXCEPT !.raised = TRUE]
        ELSE IF ~IsToVote(o, voter) THEN w
        ELSE LET w1 == CastVote([w EXCEPT !.accepted = @ + 1], v, voter, vt)
             IN  IF w1.vobj[v].position # Len(o.order)
                 THEN CallNext(w1, v)
                 ELSE DoEnd(w1, v)

\* Vote.call_next
CallNext(w, v) ==
    LET o       == w.vobj[v]
        to_vote == o.order[o.position + 1]
    IN  IF ~can_vote(w.ghost, w.dead_votes, to_vote, o.traveler)
        THEN NoDeadVotesNotice(DoVote(w, v, to_vote, 0), v, to_vote)
        ELSE IF to_vote \in DOMAIN o.prevotes
        THEN DoVote(w, v, to_vote, o.prevotes[to_vote])
        ELSE w

\* writes a world back to the variables
Commit(w) ==
    /\ vobj' = w.vobj
    /\ dead_votes' = w.dead_votes
    /\ ghost' = w.ghost
    /\ is_pms' = w.is_pms
    /\ is_noms' = w.is_noms
    /\ past_votes' = w.past_votes
    /\ current_vote' = w.current_vote
    /\ about_to_die' = w.about_to_die
    /\ vote_end_messages' = w.vote_end_messages
    /\ msg_edits' = w.msg_edits
    /\ resolved' = IF w.ended # None
                   THEN Append(resolved, <<w.ended[1], "end">>)
                   ELSE resolved

\* last.v is the vote the operation was called on if that vote was the day's
\* current_vote at the call, and NoVote otherwise
Did(op, v, w) ==
    [op |-> op, v |-> IF current_vote = v THEN v ELSE NoVote,
     accepted |-> w.accepted, ended |-> w.ended,
     notices |-> w.notices, raised |-> w.raised]

DidOnly(op, v) ==
    [op |-> op, v |-> v, accepted |-> 0, ended |-> None,
     notices |-> << >>, raised |-> FALSE]

\* ----------------------------------------------------------------- Init
Seated == Range(seating_order)
Votes == 1 .. Len(vobj)
\* the players whose nominate commands are explored
Nominators == {0, ST}

\* A new Day (Day.__init__) of a game of n players in which nobody has
\* nominated yet.  A living player holds their dead vote.
NewDay(n) ==
    /\ seating_order = Seating(n)
    /\ ghost \in [Everyone -> BOOLEAN]
    /\ \A p \in Everyone \ (0 .. n - 1) : ~ghost[p]
    /\ dead_votes \in [Everyone -> 0 .. 1]
    /\ \A p \in Everyone : ~ghost[p] => dead_votes[p] = 1
    /\ nominations_today = [p \in Everyone |-> 0]
    /\ has_been_nominated = [p \in Everyone |-> FALSE]
    /\ is_pms = TRUE
    /\ is_noms = FALSE
    /\ past_votes = << >>
    /\ current_vote = NoVote
    /\ vote_end_messages = << >>
    /\ msg_edits = << >>
    /\ vobj = << >>
    /\ pc = "idle"
    /\ ctor_i = 0
    /\ prompt = None
    /\ prevotes_issued = 0
    /\ resolved = << >>
    /\ last = DidOnly("init", NoVote)

\* what a call returned, or the exception it raised
Returned(value) == [raised |-> "none", returned |-> value]
Raised(exception) == [raised |-> exception, returned |-> "nothing"]

\* Game.current_day is the Day; no hook or ability has been called
QuietEngine ==
    /\ past_days = 0
    /\ current_day = TRUE
    /\ hook_calls = << >>
    /\ body_calls = << >>
    /\ outcome = Returned("nothing")

\* nobody is under an effect, drunk or poisoned, or has used an ability
NoEffects ==
    /\ effects = [p \in Everyone |-> << >>]
    /\ impaired = [drunk |-> {}, poisoned |-> {}, used_ability |-> {}]

AtMostOne(S) == {{}} \cup {{p} : p \in S}

Init ==
    /\ NewDay(NumSeats)
    /\ about_to_die = None
    /\ statuses \in
         [ traveler : AtMostOne({NumSeats - 1}),
           can_vote_twice : AtMostOne(0 .. NumSeats - 1),
           can_dead_vote_without_token : AtMostOne({0}) ]
    /\ \A p \in statuses.can_dead_vote_without_token : ghost[p]
    /\ QuietEngine
    /\ NoEffects

\* -------------------------------------------------------------- actions
\* mutant: a traveler may not be nominated without allowance either
CheckValidNominatorNoTraveler(nominator, nominee) ==
    can_nominate(nominator) \/ is_storyteller(nominator)

\* Day._check_valid_nominator
CheckValidNominator(nominator, nominee) ==
    can_nominate(nominator) \/ is_traveler(nominee) \/ is_storyteller(nominator)

\* Day._check_valid_nominee
CheckValidNominee(nominator, nominee) ==
    IF is_storyteller(nominee) THEN can_be_nominated(ST, nominator)
    ELSE can_be_nominated(nominee, nominator)

\* Day.nominate, lines 81-87
AdjustNominator(nt, nominator, nominee) ==
    IF ~(is_storyteller(nominee) \/ is_traveler(nominee))
    THEN [nt EXCEPT ![nominator] = @ + 1]
    ELSE nt

\* Day.nominate up to the constructor's insertion loop (Vote.__init__ line 100).
\* proceed is the conjunction of what the nomination hooks returned.
NominateBody(nominee, nominator, proceed) ==
    /\ pc = "idle"
    /\ Len(vobj) < MaxVotes
    /\ IF CheckValidNominator(nominator, nominee)
          /\ CheckValidNominee(nominator, nominee)
          /\ proceed
       THEN /\ nominations_today' =
                   AdjustNominator(nominations_today, nominator, nominee)
            /\ has_been_nominated' = [has_been_nominated EXCEPT ![nominee] = TRUE]
            /\ is_pms' = FALSE
            /\ is_noms' = FALSE
            /\ vobj' = Append(vobj, NewVote(seating_order, nominee, nominator,
                                            ghost, about_to_die))
            /\ pc' = "ctor"
            /\ ctor_i' = 0
            /\ last' = DidOnly("nominate", Len(vobj) + 1)
       ELSE /\ UNCHANGED <<nominations_today, has_been_nominated, is_pms, is_noms,
                           vobj, pc, ctor_i>>
            /\ last' = DidOnly("nominate_failed", NoVote)
    /\ UNCHANGED <<seating_order, ghost, dead_votes, statuses, past_votes,
                   current_vote, about_to_die, vote_end_messages, msg_edits,
                   prompt, prevotes_issued, resolved>>

\* Day.nominate with the hooks summarised by the conjunction of their results
Nominate(nominee, nominator, proceed) ==
    /\ NominateBody(nominee, nominator, proceed)
    /\ UNCHANGED enginevars

\* mutant: "proceed and hook()": a hook is not called after a veto
CallHookShortCircuit(acc, player, k, vetoes) ==
    IF acc.proceed
    THEN [ proceed |-> <<player, k>> \notin vetoes,
           calls   |-> Append(acc.calls, <<player, k, <<player, k>> \notin vetoes>>) ]
    ELSE acc

\* Day.nominate lines 71-73 and 76: "proceed = hook() and proceed".  Hook 0 of
\* a player is the character's, hook k the one of the player's k-th effect; the
\* hooks in vetoes return False.
CallHook(acc, player, k, vetoes) ==
    [ proceed |-> <<player, k>> \notin vetoes /\ acc.proceed,
      calls   |-> Append(acc.calls, <<player, k, <<player, k>> \notin vetoes>>) ]

RECURSIVE PlayerHooks(_, _, _, _, _), RunHooks(_, _, _, _, _)

\* Day.nominate lines 71-76 for one player, from hook k on
PlayerHooks(acc, effs, player, k, vetoes) ==
    IF k > Len(effs[player]) THEN acc
    ELSE PlayerHooks(CallHook(acc, player, k, vetoes), effs, player, k + 1, vetoes)

\* Day.nominate lines 69-76, from the i-th seat on
RunHooks(acc, effs, seating, i, vetoes) ==
    IF i > Len(seating) THEN acc
    ELSE RunHooks(PlayerHooks(acc, effs, seating[i], 0, vetoes),
                  effs, seating, i + 1, vetoes)

\* the hooks a nomination may call
Hooks == {<<p, k>> : p \in Seated, k \in 0 .. MaxEffects} \cap
         {h \in Everyone \X (0 .. MaxEffects) : h[2] <= Len(effects[h[1]])}

\* Day.nominate lines 62-66: the exception the validation raises, if any
NominateError(nominee, nominator) ==
    IF ~CheckValidNominator(nominator, nominee) THEN Raised("AlreadyNominated")
    ELSE IF ~CheckValidNominee(nominator, nominee) THEN Raised("BadArgument")
    ELSE Returned("nothing")

\* Day.nominate with its hooks
NominateHooks(nominee, nominator, vetoes) ==
    LET r == RunHooks([proceed |-> TRUE, calls |-> << >>], effects,
                      seating_order, 1, vetoes)
    IN  /\ NominateBody(nominee, nominator, r.proceed)
        /\ hook_calls' = IF CheckValidNominator(nominator, nominee)
                            /\ CheckValidNominee(nominator, nominee)
                         THEN r.calls ELSE << >>
        /\ outcome' = NominateError(nominee, nominator)
        /\ UNCHANGED <<effects, impaired, past_days, current_day, body_calls>>

\* Vote.__init__ lines 101-103: one iteration of "for player in self.order".
\* For a storyteller vote self.order is game.seating_order itself (line 72).
CtorLoop ==
    /\ pc = "ctor"
    /\ LET v      == Len(vobj)
           order  == vobj[v].order
           player == order[ctor_i + 1]
       IN  /\ ctor_i < Len(order)
           /\ IF can_vote_twice(player)
              THEN /\ Len(order) < MaxOrderLen
                   /\ vobj' = [vobj EXCEPT ![v].order =
                                   Insert(order, Index(order, player), player)]
                   /\ seating_order' =
                          IF vobj[v].storyteller
                          THEN Insert(order, Index(order, player), player)
                          ELSE seating_order
              ELSE UNCHANGED <<vobj, seating_order>>
           /\ ctor_i' = ctor_i + 1
           /\ last' = DidOnly("ctor_loop", v)
    /\ UNCHANGED <<ghost, dead_votes, nominations_today, has_been_nominated,
                   statuses, is_pms, is_noms, past_votes, current_vote,
                   about_to_die, vote_end_messages, msg_edits, pc, prompt,
                   prevotes_issued, resolved>>
    /\ UNCHANGED enginevars

\* The loop is exhausted: Day.nominate lines 94-115.
CtorReturn ==
    /\ pc = "ctor"
    /\ ctor_i >= Len(vobj[Len(vobj)].order)
    /\ LET v == Len(vobj)
           w == CallNext([World EXCEPT !.current_vote = v], v)
       IN  /\ Commit(w)
           /\ last' = [Did("call_next", v, w) EXCEPT !.v = v]
    /\ pc' = "idle"
    /\ UNCHANGED <<seating_order, nominations_today, has_been_nominated, statuses,
                   ctor_i, prompt, prevotes_issued>>
    /\ UNCHANGED enginevars

\* Vote.vote called by the transport layer, which reaches the vote through
\* day.current_vote
Vote(voter, vt) ==
    /\ pc = "idle"
    /\ current_vote # NoVote
    /\ LET w == DoVote(World, current_vote, voter, vt)
       IN  /\ Commit(w)
           /\ last' = Did("vote", current_vote, w)
    /\ UNCHANGED <<seating_order, nominations_today, has_been_nominated, statuses,
                   pc, ctor_i, prompt, prevotes_issued>>
    /\ UNCHANGED enginevars

\* mutant: prevote() stores the prevote of a voter who has voted
AlreadyVotedNever(o, voter) == FALSE

\* Vote.prevote, line 197
AlreadyVoted(o, voter) == Index(o.order, voter) < o.position

\* Vote.prevote up to its suspension at get_bool_input (line 188), called by
\* the transport layer on day.current_vote.  One prompt is open at a time.
PrevoteBody(voter, vt) ==
    /\ pc = "idle"
    /\ current_vote # NoVote
    /\ prompt = None
    /\ prevotes_issued' = prevotes_issued + 1
    /\ LET v == current_vote
           o == vobj[v]
       IN  IF o.position >= Len(o.order) \/ Index(o.order, voter) < 0
           THEN UNCHANGED <<vobj, prompt>>
           ELSE IF voter = o.order[o.position + 1]
           THEN /\ prompt' = <<v, voter, vt>>
                /\ UNCHANGED vobj
           ELSE IF AlreadyVoted(o, voter)
           THEN UNCHANGED <<vobj, prompt>>
           ELSE /\ vobj' = [vobj EXCEPT ![v].prevotes = (voter :> vt) @@ @]
                /\ UNCHANGED prompt
    /\ last' = DidOnly("prevote", current_vote)
    /\ UNCHANGED <<seating_order, ghost, dead_votes, nominations_today,
                   has_been_nominated, statuses, is_pms, is_noms, past_votes,
                   current_vote, about_to_die, vote_end_messages, msg_edits, pc,
                   ctor_i, resolved>>
    /\ UNCHANGED enginevars

\* a prevote command, while the day's count of them is below the bound
Prevote(voter, vt) ==
    /\ prevotes_issued < MaxPrevotes
    /\ PrevoteBody(voter, vt)

\* Vote.prevote lines 188-195: the voter answers the prompt
PromptAnswer(answer) ==
    /\ pc = "idle"
    /\ prompt # None
    /\ LET v == prompt[1]
           w == IF answer THEN DoVote(World, v, prompt[2], prompt[3]) ELSE World
       IN  /\ Commit(w)
           /\ last' = Did("prompt_answer", v, w)
    /\ prompt' = None
    /\ UNCHANGED <<seating_order, nominations_today, has_been_nominated, statuses,
                   pc, ctor_i, prevotes_issued>>
    /\ UNCHANGED enginevars

\* Vote.end called from outside vote()
End(v) ==
    /\ pc = "idle"
    /\ LET w == DoEnd(World, v)
       IN  /\ Commit(w)
           /\ last' = Did("end", v, w)
    /\ UNCHANGED <<seating_order, nominations_today, has_been_nominated, statuses,
                   pc, ctor_i, prompt, prevotes_issued>>
    /\ UNCHANGED enginevars

\* mutant: the refund looks at whether the nominator is a storyteller
CancelCleanupByNominator(nt, o) ==
    IF ~o.traveler \/ is_storyteller(o.nominator)
    THEN [nt EXCEPT ![o.nominator] = @ - 1]
    ELSE nt

\* Vote.cancel, lines 299-302
CancelCleanup(nt, o) ==
    IF ~o.traveler \/ o.storyteller
    THEN [nt EXCEPT ![o.nominator] = @ - 1]
    ELSE nt

\* mutant: cancel() without its guard
IsLiveAlways(cv, v) == TRUE

\* Vote.cancel, line 287
IsLive(cv, v) == cv = v

\* Vote.cancel: what it assigns
CancelVote(v) ==
    IF IsLive(current_vote, v)
    THEN /\ current_vote' = NoVote
         /\ is_pms' = TRUE
         /\ is_noms' = TRUE
         /\ nominations_today' = CancelCleanup(nominations_today, vobj[v])
         /\ has_been_nominated' =
                [has_been_nominated EXCEPT ![vobj[v].nominee] = FALSE]
         /\ resolved' = Append(resolved, <<v, "cancel">>)
    ELSE UNCHANGED <<current_vote, is_pms, is_noms, nominations_today,
                     has_been_nominated, resolved>>

\* Vote.cancel
Cancel(v) ==
    /\ pc = "idle"
    /\ CancelVote(v)
    /\ last' = DidOnly("cancel", IF current_vote = v THEN v ELSE NoVote)
    /\ UNCHANGED <<seating_order, ghost, dead_votes, statuses, past_votes,
                   about_to_die, vote_end_messages, msg_edits, vobj, pc, ctor_i,
                   prompt, prevotes_issued>>
    /\ UNCHANGED enginevars

\* ----------------------------------------------------- the two windows
\* what open_pms, close_pms, open_noms and close_noms leave alone
WindowFrame(op) ==
    /\ pc = "idle"
    /\ last' = DidOnly(op, NoVote)
    /\ UNCHANGED <<seating_order, ghost, dead_votes, nominations_today,
                   has_been_nominated, statuses, past_votes, current_vote,
                   about_to_die, vote_end_messages, msg_edits, vobj, pc, ctor_i,
                   prompt, prevotes_issued, resolved>>
    /\ UNCHANGED enginevars

\* Day.open_pms
OpenPms == WindowFrame("open_pms") /\ is_pms' = TRUE /\ UNCHANGED is_noms

\* Day.open_noms
OpenNoms == WindowFrame("open_noms") /\ is_noms' = TRUE /\ UNCHANGED is_pms

\* mutant: closing PMs closes nominations too
ClosePmsAndNoms == WindowFrame("close_pms") /\ is_pms' = FALSE /\ is_noms' = FALSE

\* Day.close_pms
ClosePms == WindowFrame("close_pms") /\ is_pms' = FALSE /\ UNCHANGED is_noms

\* Day.close_noms
CloseNoms == WindowFrame("close_noms") /\ is_noms' = FALSE /\ UNCHANGED is_pms

\* ------------------------------------------------------------- effects
\* An Effect is a record: cleanup says which cleanup call schedules its
\* deletion ("evening", "morning" or "none"); days is the attribute that
\* evening_delete / morning_delete were given, when they were given one;
\* initial (the days given) and calls (the designated cleanup calls so far)
\* are history.
Deleted == [cleanup |-> "deleted"]

\* mutant: the effect is deleted when its counter has run down to zero
ScheduledDeleteAtZero(e) ==
    IF "days" \in DOMAIN e
    THEN IF e.days = 0 THEN Deleted
         ELSE [e EXCEPT !.days = @ - 1, !.calls = @ + 1]
    ELSE Deleted

\* evening_delete, morning_delete (lines 214-220, 229-235); Effect.delete
\* takes the effect off its player
ScheduledDelete(e) ==
    IF "days" \in DOMAIN e
    THEN IF e.days = 1 THEN Deleted
         ELSE [e EXCEPT !.days = @ - 1, !.calls = @ + 1]
    ELSE Deleted

\* effect.evening_cleanup(game) / effect.morning_cleanup(game): the Effect
\* class's own method, then the decorator's function (lines 186-189)
CleanupCall(e, when) == IF e.cleanup = when THEN ScheduledDelete(e) ELSE e

RECURSIVE Remaining(_)
\* player.effects after the deletions
Remaining(es) ==
    IF es = << >> THEN << >>
    ELSE IF es[1] = Deleted THEN Remaining(Tail(es))
    ELSE <<es[1]>> \o Remaining(Tail(es))

\* Day.end lines 166-168 for one player: every effect of the snapshot is called
EveningCleanup(es) == Remaining([k \in 1 .. Len(es) |-> CleanupCall(es[k], "evening")])

RECURSIVE CleanupCalls(_, _)
\* the evening_cleanup calls of Day.end, in the order of lines 165-168
CleanupCalls(seating, effs) ==
    IF seating = << >> THEN << >>
    ELSE [k \in 1 .. Len(effs[seating[1]]) |-> <<seating[1], k, TRUE>>]
         \o CleanupCalls(Tail(seating), effs)

\* -------------------------------------------------------------- Day.end
\* Day.end lines 164-168
DayEndCleanup ==
    /\ pc = "idle"
    /\ current_day
    /\ effects' = [p \in Everyone |->
                      IF p \in Seated THEN EveningCleanup(effects[p]) ELSE effects[p]]
    /\ hook_calls' = CleanupCalls(seating_order, effects)
    /\ pc' = "day_end_cancel"
    /\ last' = DidOnly("day_end", current_vote)
    /\ UNCHANGED <<seating_order, ghost, dead_votes, nominations_today,
                   has_been_nominated, statuses, is_pms, is_noms, past_votes,
                   current_vote, about_to_die, vote_end_messages, msg_edits, vobj,
                   ctor_i, prompt, prevotes_issued, resolved, impaired, past_days,
                   current_day, body_calls, outcome>>

\* mutant: the day's end resolves the live vote
DayEndCancelResolves ==
    /\ pc = "day_end_cancel"
    /\ LET w == IF current_vote # NoVote THEN DoEnd(World, current_vote) ELSE World
       IN  /\ Commit(w)
           /\ last' = DidOnly("day_end_cancel", current_vote)
    /\ pc' = "day_end_archive"
    /\ UNCHANGED <<seating_order, nominations_today, has_been_nominated, statuses,
                   ctor_i, prompt, prevotes_issued>>
    /\ UNCHANGED enginevars

\* Day.end lines 170-172
DayEndCancel ==
    /\ pc = "day_end_cancel"
    /\ IF current_vote # NoVote
       THEN CancelVote(current_vote)
       ELSE UNCHANGED <<current_vote, is_pms, is_noms, nominations_today,
                        has_been_nominated, resolved>>
    /\ pc' = "day_end_archive"
    /\ last' = DidOnly("day_end_cancel", current_vote)
    /\ UNCHANGED <<seating_order, ghost, dead_votes, statuses, past_votes,
                   about_to_die, vote_end_messages, msg_edits, vobj, ctor_i,
                   prompt, prevotes_issued>>
    /\ UNCHANGED enginevars

\* Day.end lines 174-191
DayEndArchive ==
    /\ pc = "day_end_archive"
    /\ past_days' = past_days + 1
    /\ current_day' = FALSE
    /\ pc' = "idle"
    /\ last' = DidOnly("day_end_archive", NoVote)
    /\ UNCHANGED <<seating_order, ghost, dead_votes, nominations_today,
                   has_been_nominated, statuses, is_pms, is_noms, past_votes,
                   current_vote, about_to_die, vote_end_messages, msg_edits, vobj,
                   ctor_i, prompt, prevotes_issued, resolved, effects, impaired,
                   hook_calls, body_calls, outcome>>

Next ==
    \/ \E nominee \in Seated \cup {ST}, nominator \in Nominators, proceed \in BOOLEAN :
           Nominate(nominee, nominator, proceed)
    \/ CtorLoop
    \/ CtorReturn
    \/ \E voter \in Seated, vt \in 0 .. 1 : Vote(voter, vt)
    \/ \E v \in Votes : End(v)
    \/ \E v \in Votes : Cancel(v)

\* A day of nominations and votes without prevotes.
Spec == Init /\ [][Next]_vars

\* A day with prevotes, in a game where nobody holds a status and only the
\* player in seat 0 may have died.
InitPrevote ==
    /\ Init
    /\ statuses = [traveler |-> {}, can_vote_twice |-> {},
                   can_dead_vote_without_token |-> {}]
    /\ \A p \in Players \ {0} : ~ghost[p]

NextPrevote ==
    \/ Next
    \/ \E voter \in Seated, vt \in 0 .. 1 : Prevote(voter, vt)
    \/ \E answer \in BOOLEAN : PromptAnswer(answer)

SpecPrevote == InitPrevote /\ [][NextPrevote]_vars

\* ------------------------------------------- a day with its two windows
\* A day of a game without statuses in which nobody has died.
InitWindows ==
    /\ Init
    /\ statuses = [traveler |-> {}, can_vote_twice |-> {},
                   can_dead_vote_without_token |-> {}]
    /\ \A p \in Everyone : ~ghost[p]

\* The storytellers open and close PMs and nominations between the commands
\* of the day.
NextWindows ==
    \/ Next
    \/ OpenPms
    \/ OpenNoms
    \/ ClosePms
    \/ CloseNoms

SpecWindows == InitWindows /\ [][NextWindows]_vars

\* ------------------------------------------------- one vote, turn by turn
\* A day of a game of TurnSeats players without statuses, any of them dead
\* with or without their dead vote.
InitTurns ==
    /\ NewDay(TurnSeats)
    /\ about_to_die = None
    /\ statuses = [traveler |-> {}, can_vote_twice |-> {},
                   can_dead_vote_without_token |-> {}]
    /\ QuietEngine
    /\ NoEffects

\* The storytellers nominate one player; the vote runs with prevotes and may
\* be cancelled; end() is called by vote() only.
NextTurns ==
    \/ \E nominee \in Seated :
           /\ vobj = << >>
           /\ Nominate(nominee, ST, TRUE)
    \/ CtorLoop
    \/ CtorReturn
    \/ \E voter \in Seated, vt \in 0 .. 1 : Vote(voter, vt)
    \/ \E voter \in Seated, vt \in 0 .. 1 :
           /\ prevotes_issued < MaxTurnPrevotes
           /\ PrevoteBody(voter, vt)
    \/ \E answer \in BOOLEAN : PromptAnswer(answer)
    \/ \E v \in Votes : Cancel(v)

SpecTurns == InitTurns /\ [][NextTurns]_vars

\* the voter whom call_next() announced submits a vote
CalledVoterVotes ==
    /\ current_vote # NoVote
    /\ vobj[current_vote].position < Len(vobj[current_vote].order)
    /\ \E vt \in 0 .. 1 :
           Vote(vobj[current_vote].order[vobj[current_vote].position + 1], vt)

\* the day of InitTurns with the player in seat 0 alive
InitTurnsFair == InitTurns /\ ~ghost[0]

\* The constructor and nominate() are code that runs on; every voter who is
\* called votes in the end.
SpecTurnsFair ==
    /\ InitTurnsFair
    /\ [][NextTurns]_vars
    /\ WF_vars(CtorLoop)
    /\ WF_vars(CtorReturn)
    /\ WF_vars(CalledVoterVotes)

\* ------------------------------------------------- constructing one Vote
\* The Vote that ended before the one under construction, when there was one:
\* the storytellers nominated seat 0 and every player voted yes, the ghosts
\* with their dead votes.
EarlierVote(n, gh) ==
    LET order == InitialOrder(Seating(n), 0, FALSE)
    IN  [ nominee |-> 0, nominator |-> ST, traveler |-> FALSE,
          storyteller |-> FALSE, prevotes |-> << >>, position |-> n,
          votes |-> n, voted |-> order, order |-> order,
          majority2 |-> NotGhostCount(order, gh) ]

\* A game of 1 .. CtorSeats players on a day without a vote so far, or with
\* EarlierVote as its only one; since then up to two of the players in the
\* first three seats may vote twice and the last seat may hold a traveler.
InitCtor ==
    \E n \in 1 .. CtorSeats, earlier \in BOOLEAN :
        /\ seating_order = Seating(n)
        /\ ghost \in [Everyone -> BOOLEAN]
        /\ \A p \in Everyone \ (0 .. n - 1) : ~ghost[p]
        /\ dead_votes = [p \in Everyone |-> IF earlier /\ ghost[p] THEN 0 ELSE 1]
        /\ nominations_today = [p \in Everyone |-> IF earlier /\ p = ST THEN 1 ELSE 0]
        /\ has_been_nominated = [p \in Everyone |-> earlier /\ p = 0]
        /\ statuses \in
             [ traveler : AtMostOne({n - 1} \ {0}),
               can_vote_twice :
                   {d \in SUBSET ((0 .. n - 1) \cap (0 .. 2)) : Cardinality(d) <= 2},
               can_dead_vote_without_token : {{}} ]
        /\ is_pms = TRUE
        /\ is_noms = earlier
        /\ past_votes = IF earlier THEN <<1>> ELSE << >>
        /\ current_vote = NoVote
        /\ about_to_die = IF earlier THEN <<0, n, 1>> ELSE None
        /\ vote_end_messages = IF earlier THEN <<1>> ELSE << >>
        /\ msg_edits = << >>
        /\ vobj = IF earlier THEN <<EarlierVote(n, ghost)>> ELSE << >>
        /\ pc = "idle"
        /\ ctor_i = 0
        /\ prompt = None
        /\ prevotes_issued = 0
        /\ resolved = IF earlier THEN << <<1, "end">> >> ELSE << >>
        /\ last = DidOnly("init", NoVote)
        /\ QuietEngine
        /\ NoEffects

\* The storytellers' nomination goes through; nothing else happens.
NextCtor ==
    \/ \E nominee \in Seated \cup {ST} :
           /\ Len(past_votes) = Len(vobj)
           /\ Nominate(nominee, ST, TRUE)
    \/ CtorLoop
    \/ CtorReturn

SpecCtor == InitCtor /\ [][NextCtor]_vars

\* The constructor is synchronous code: its loop takes its next iteration, and
\* returns once the iterator is exhausted.
SpecCtorFair == SpecCtor /\ WF_vars(CtorLoop) /\ WF_vars(CtorReturn)

\* ------------------------------------------- nominations and their hooks
\* an effect without a scheduled deletion
PlainEffect == [cleanup |-> "none"]

\* A new day on which everybody is alive and the seated players are under up
\* to MaxEffects effects.
InitHooks ==
    /\ NewDay(NumSeats)
    /\ \A p \in Everyone : ~ghost[p]
    /\ about_to_die = None
    /\ statuses \in [ traveler : AtMostOne({NumSeats - 1}),
                      can_vote_twice : {{}},
                      can_dead_vote_without_token : {{}} ]
    /\ QuietEngine
    /\ effects \in [Everyone -> {[i \in 1 .. n |-> PlainEffect] : n \in 0 .. MaxEffects}]
    /\ \A p \in Everyone \ (0 .. NumSeats - 1) : effects[p] = << >>
    /\ impaired = [drunk |-> {}, poisoned |-> {}, used_ability |-> {}]

NextHooks ==
    \/ \E nominee \in Seated \cup {ST}, nominator \in Nominators,
          vetoes \in SUBSET Hooks : NominateHooks(nominee, nominator, vetoes)
    \/ CtorLoop
    \/ CtorReturn

SpecHooks == InitHooks /\ [][NextHooks]_vars

\* ------------------------------------------------------ a day to its end
\* effects whose deletion the evening schedules
EveningEffects ==
    { [cleanup |-> "evening", calls |-> 0] } \cup
    { [cleanup |-> "evening", days |-> d, initial |-> d, calls |-> 0] : d \in 1 .. MaxDays }

\* A new day on which the player in seat 0 may be under one effect; nobody
\* votes twice or votes dead without a token.
InitDay ==
    /\ NewDay(NumSeats)
    /\ about_to_die = None
    /\ statuses \in [ traveler : AtMostOne({NumSeats - 1}),
                      can_vote_twice : {{}},
                      can_dead_vote_without_token : {{}} ]
    /\ QuietEngine
    /\ effects \in [Everyone -> {<< >>, <<PlainEffect>>} \cup {<<e>> : e \in EveningEffects}]
    /\ \A p \in Everyone \ {0} : effects[p] = << >>
    /\ impaired = [drunk |-> {}, poisoned |-> {}, used_ability |-> {}]

\* The commands reach the Day through game.current_day.
NextDay ==
    \/ \E nominee \in Seated \cup {ST}, nominator \in Nominators, proceed \in BOOLEAN :
           current_day /\ Nominate(nominee, nominator, proceed)
    \/ CtorLoop
    \/ CtorReturn
    \/ \E voter \in Seated, vt \in 0 .. 1 : current_day /\ Vote(voter, vt)
    \/ DayEndCleanup
    \/ DayEndCancel
    \/ DayEndArchive

SpecDay == InitDay /\ [][NextDay]_vars

\* ------------------------------------------------- the cleanup of effects
\* one call of effect.evening_cleanup(game) or effect.morning_cleanup(game)
\* on the k-th effect of a player
EffectCleanup(p, k, when) ==
    /\ pc = "idle"
    /\ k \in 1 .. Len(effects[p])
    /\ effects' = [effects EXCEPT ![p] =
                      Remaining([@ EXCEPT ![k] = CleanupCall(@, when)])]
    /\ hook_calls' = << <<p, k, TRUE>> >>
    /\ last' = DidOnly(when, NoVote)
    /\ UNCHANGED <<seating_order, ghost, dead_votes, nominations_today,
                   has_been_nominated, statuses, is_pms, is_noms, past_votes,
                   current_vote, about_to_die, vote_end_messages, msg_edits, vobj,
                   pc, ctor_i, prompt, prevotes_issued, resolved, impaired,
                   past_days, current_day, body_calls, outcome>>

\* effects whose deletion a cleanup call schedules, with or without a
\* day-counter
ScheduledEffects ==
    { [cleanup |-> w, calls |-> 0] : w \in {"evening", "morning"} } \cup
    { [cleanup |-> w, days |-> d, initial |-> d, calls |-> 0] :
          w \in {"evening", "morning"}, d \in 1 .. MaxDays }

\* Every seated player is under up to MaxEffects effects.
InitEffects ==
    /\ NewDay(NumSeats)
    /\ \A p \in Everyone : ~ghost[p]
    /\ about_to_die = None
    /\ statuses = [traveler |-> {}, can_vote_twice |-> {},
                   can_dead_vote_without_token |-> {}]
    /\ QuietEngine
    /\ effects \in [Everyone ->
                      UNION {[1 .. n -> ScheduledEffects \cup {PlainEffect}] :
                                 n \in 0 .. MaxEffects}]
    /\ \A p \in Everyone \ (0 .. NumSeats - 1) : effects[p] = << >>
    /\ impaired = [drunk |-> {}, poisoned |-> {}, used_ability |-> {}]

NextEffects ==
    \E p \in Seated, k \in 1 .. MaxEffects, when \in {"evening", "morning"} :
        EffectCleanup(p, k, when)

SpecEffects == InitEffects /\ [][NextEffects]_vars

\* -------------------------------------------------------- ability gating
\* Player.functioning(game)
functioning(p) == ~ghost[p] /\ p \notin impaired.drunk /\ p \notin impaired.poisoned

\* if_functioning lines 82-89
ImpairmentStatus(p) ==
    IF ghost[p] THEN "dead"
    ELSE IF p \in impaired.drunk THEN "drunk"
    ELSE IF p \in impaired.poisoned THEN "poisoned"
    ELSE "not functioning"

\* f"({status})", line 92
Epithet(status) == IF status = "drunk" THEN "(drunk)" ELSE "(poisoned)"

\* func(character, ctx, *args, **kwargs): the call and what it returns
CallThrough(owner, enabled, epithet_string) ==
    [ calls  |-> << [owner |-> owner, enabled |-> enabled,
                     epithet_string |-> epithet_string] >>,
      result |-> Returned("body") ]

\* getattr(Character(None), func.__name__)(ctx, *args, **kwargs), lines 111, 139
NeutralResult == [calls |-> << >>, result |-> Returned("neutral")]

\* mutant: an impaired owner's ability is run whatever run_if_drunkpoisoned is
IfFunctioningRunsImpaired(owner, run_if_drunkpoisoned, bug_report) ==
    IF functioning(owner) THEN CallThrough(owner, TRUE, "")
    ELSE IF bug_report /\ ImpairmentStatus(owner) \in {"drunk", "poisoned"}
    THEN CallThrough(owner, FALSE, Epithet(ImpairmentStatus(owner)))
    ELSE NeutralResult

\* if_functioning's inner_wrapper, lines 78-111; bug_report is what
\* safe_bug_report(ctx) returns
IfFunctioning(owner, run_if_drunkpoisoned, bug_report) ==
    IF functioning(owner) THEN CallThrough(owner, TRUE, "")
    ELSE IF bug_report /\ run_if_drunkpoisoned
            /\ ImpairmentStatus(owner) \in {"drunk", "poisoned"}
    THEN CallThrough(owner, FALSE, Epithet(ImpairmentStatus(owner)))
    ELSE NeutralResult

\* onetime_use's wrapper, lines 122-139
OnetimeUse(owner, bug_report) ==
    IF owner \notin impaired.used_ability THEN CallThrough(owner, TRUE, "")
    ELSE NeutralResult

\* a call of an ability method decorated with @if_functioning(run_if_drunkpoisoned)
FunctioningGatedCall(owner, run_if_drunkpoisoned, bug_report) ==
    /\ pc = "idle"
    /\ body_calls' = IfFunctioning(owner, run_if_drunkpoisoned, bug_report).calls
    /\ outcome' = IfFunctioning(owner, run_if_drunkpoisoned, bug_report).result
    /\ last' = DidOnly("if_functioning", NoVote)
    /\ UNCHANGED <<seating_order, ghost, dead_votes, nominations_today,
                   has_been_nominated, statuses, is_pms, is_noms, past_votes,
                   current_vote, about_to_die, vote_end_messages, msg_edits, vobj,
                   pc, ctor_i, prompt, prevotes_issued, resolved, effects,
                   impaired, past_days, current_day, hook_calls>>

\* a call of an ability method decorated with @onetime_use
OnetimeGatedCall(owner, bug_report) ==
    /\ pc = "idle"
    /\ body_calls' = OnetimeUse(owner, bug_report).calls
    /\ outcome' = OnetimeUse(owner, bug_report).result
    /\ last' = DidOnly("onetime_use", NoVote)
    /\ UNCHANGED <<seating_order, ghost, dead_votes, nominations_today,
                   has_been_nominated, statuses, is_pms, is_noms, past_votes,
                   current_vote, about_to_die, vote_end_messages, msg_edits, vobj,
                   pc, ctor_i, prompt, prevotes_issued, resolved, effects,
                   impaired, past_days, current_day, hook_calls>>

\* The seated players may be dead, drunk or poisoned, and may have used their
\* ability.
InitGate ==
    /\ NewDay(NumSeats)
    /\ about_to_die = None
    /\ statuses = [traveler |-> {}, can_vote_twice |-> {},
                   can_dead_vote_without_token |-> {}]
    /\ QuietEngine
    /\ effects = [p \in Everyone |-> << >>]
    /\ impaired \in [ drunk : SUBSET (0 .. NumSeats - 1),
                      poisoned : SUBSET (0 .. NumSeats - 1),
                      used_ability : SUBSET (0 .. NumSeats - 1) ]

NextGate ==
    \/ \E owner \in Seated, run_if_drunkpoisoned \in BOOLEAN, bug_report \in BOOLEAN :
           FunctioningGatedCall(owner, run_if_drunkpoisoned, bug_report)
    \/ \E owner \in Seated, bug_report \in BOOLEAN : OnetimeGatedCall(owner, bug_report)

SpecGate == InitGate /\ [][NextGate]_vars

\* ------------------------------------------------------ target selection
\* An answer to the prompt is << >>, one of the "none" synonyms of lines
\* 50-58, or <<p>>, a text that the player lookup resolves to player p.
Answers == {<< >>} \cup {<<p>> : p \in Seated}

\* what a call returned when it returns a list of players
ReturnedPlayers(ps) == [raised |-> "none", returned |-> "players", players |-> ps]

\* select_target lines 47-60, for the answer that ends its loop: the target
\* (<< >> is None), or the exception that to_player lets through.  meets is
\* whether the target meets the condition, which raises
\* InvalidMorningTargetError when it does not.
SelectTarget(answer, allow_none, meets) ==
    IF allow_none /\ answer = << >> THEN [raised |-> "none", target |-> << >>]
    ELSE IF answer = << >> THEN [raised |-> "BadArgument", target |-> << >>]
    ELSE IF ~meets THEN [raised |-> "InvalidMorningTargetError", target |-> << >>]
    ELSE [raised |-> "none", target |-> answer]

\* target.add_effect(game, effect, source), effect_object.disable(game)
AddEffect(effs, target, source, enabled, dead) ==
    [effs EXCEPT ![target] =
        Append(@, [cleanup |-> "none", source |-> source,
                   disabled |-> ~enabled, dead |-> dead])]

\* add_targeted_effect, lines 294-307.  dead is issubclass(effect, Dead).
\* Line 296 calls select_target without allow_none, which defaults to True.
AddTargetedEffect(owner, answer, allow_none, meets, enabled, dead) ==
    /\ pc = "idle"
    /\ \A p \in Seated : Len(effects[p]) < MaxEffects
    /\ LET t == SelectTarget(answer, TRUE, meets)
       IN  IF t.raised # "none"
           THEN /\ outcome' = Raised(t.raised)
                /\ UNCHANGED effects
           ELSE IF t.target = << >>
           THEN /\ outcome' = Raised("AttributeError")
                /\ UNCHANGED effects
           ELSE /\ effects' = AddEffect(effects, t.target[1], owner, enabled, dead)
                /\ outcome' = ReturnedPlayers(IF dead THEN t.target ELSE << >>)
    /\ last' = DidOnly("add_targeted_effect", NoVote)
    /\ UNCHANGED <<seating_order, ghost, dead_votes, nominations_today,
                   has_been_nominated, statuses, is_pms, is_noms, past_votes,
                   current_vote, about_to_die, vote_end_messages, msg_edits, vobj,
                   pc, ctor_i, prompt, prevotes_issued, resolved, impaired,
                   past_days, current_day, hook_calls, body_calls>>

\* A day on which nobody is under an effect yet.
InitTarget ==
    /\ NewDay(NumSeats)
    /\ about_to_die = None
    /\ statuses = [traveler |-> {}, can_vote_twice |-> {},
                   can_dead_vote_without_token |-> {}]
    /\ QuietEngine
    /\ NoEffects

NextTarget ==
    \E owner \in Seated, answer \in Answers, allow_none \in BOOLEAN,
       meets \in BOOLEAN, enabled \in BOOLEAN, dead \in BOOLEAN :
        AddTargetedEffect(owner, answer, allow_none, meets, enabled, dead)

SpecTarget == InitTarget /\ [][NextTarget]_vars

\* ================================================================ claims
Count(s, x) == Cardinality({i \in 1 .. Len(s) : s[i] = x})

RECURSIVE PositionSum(_)
PositionSum(vo) ==
    IF vo = << >> THEN 0
    ELSE vo[Len(vo)].position + PositionSum(SubSeq(vo, 1, Len(vo) - 1))

\* what the vote that ended in the last step was and did
Ended == last.ended
EndedVote == vobj[last.ended[1]]
EndedResult == last.ended[2]
EndedOldAboutToDie == last.ended[3]
EndedMessage == last.ended[4]

\* ---- C1 (SpecPrevote)
C1_PositionInRange ==
    \A v \in Votes : vobj[v].position \in 0 .. Len(vobj[v].order)

C1_PositionStep ==
    /\ \A v \in Votes : vobj'[v].position >= vobj[v].position
    /\ PositionSum(vobj') - PositionSum(vobj) = last'.accepted

\* C1: the position of every Vote stays within 0 .. len(order), no step of
\* vote, prevote, call_next, end or cancel decreases it, and a step raises the
\* positions by exactly the number of votes that were accepted from the
\* currently-called voter in it.
C1_Position == [] C1_PositionInRange /\ [][C1_PositionStep]_vars

\* a vote was accepted and a recorded prevote was then cast, which resolved
\* the vote
C1_Witness ==
    /\ last.op = "vote"
    /\ last.accepted = 2
    /\ Ended # None
    /\ EndedVote.position = Len(EndedVote.order)
    /\ EndedVote.prevotes # << >>

\* ---- C2 (Spec)
\* C2: however end() and cancel() are triggered, a vote is resolved at most
\* once: it is in past_votes at most once, its nominator is refunded by
\* cancel() at most once, and it is never both archived and refunded.
C2_OneResolution ==
    \A v \in Votes :
        /\ Count(past_votes, v) <= 1
        /\ Count(resolved, <<v, "cancel">>) <= 1
        /\ Count(past_votes, v) + Count(resolved, <<v, "cancel">>) <= 1
        /\ Count(resolved, <<v, "end">>) = Count(past_votes, v)

\* the only vote of the day has ended, and cancel() was then called on it
C2_Witness ==
    /\ Len(vobj) = 1
    /\ resolved = << <<1, "end">> >>
    /\ last.op = "cancel"

\* ---- C3 (Spec)
C3_NotLiveCall == last'.op \in {"end", "cancel"} /\ last'.v = NoVote

\* C3: end() or cancel() called on a Vote that is not the day's current_vote
\* changes nothing of the day, the votes or the players.
C3_NotLiveNoChange ==
    [][C3_NotLiveCall =>
         UNCHANGED <<seating_order, ghost, dead_votes, nominations_today,
                     has_been_nominated, statuses, is_pms, is_noms, past_votes,
                     current_vote, about_to_die, vote_end_messages, msg_edits,
                     vobj, resolved>>]_vars

\* end() was called on a vote that had ended before, while another was live
C3_Witness ==
    /\ last.op = "end"
    /\ last.v = NoVote
    /\ Len(past_votes) = 1
    /\ current_vote # NoVote

\* ---- C4 (Spec)
C4_Tie ==
    /\ Ended # None
    /\ ~EndedVote.traveler
    /\ EndedOldAboutToDie # None
    /\ EndedVote.votes = EndedOldAboutToDie[2]

\* C4: when a non-traveler vote ends with a tally equal to the tally of the
\* about_to_die entry, its result is false, the entry's announcement is edited,
\* about_to_die is cleared and no new entry is installed.
C4_TieClears ==
    C4_Tie =>
        /\ ~EndedResult
        /\ about_to_die = None
        /\ msg_edits # << >>
        /\ msg_edits[Len(msg_edits)] = EndedOldAboutToDie[3]

C4_Witness == C4_Tie /\ about_to_die = None

\* ---- C5 (Spec)
C5_Passed == Ended # None /\ ~EndedVote.traveler /\ EndedResult

\* C5: when a non-traveler vote ends with result true, about_to_die becomes
\* its nominee, its tally and the id of its end announcement, and the tally is
\* strictly greater than the tally of the entry it replaces.
C5_Installs ==
    C5_Passed =>
        /\ about_to_die = <<EndedVote.nominee, EndedVote.votes, EndedMessage>>
        /\ EndedMessage = vote_end_messages[Len(vote_end_messages)]
        /\ EndedOldAboutToDie # None => EndedVote.votes > EndedOldAboutToDie[2]

C5_Witness == C5_Passed /\ EndedOldAboutToDie # None

\* ---- C6 (Spec)
C6_FailedNoTie ==
    /\ last'.ended # None
    /\ ~vobj'[last'.ended[1]].traveler
    /\ ~last'.ended[2]
    /\ about_to_die # None => vobj'[last'.ended[1]].votes # about_to_die[2]

\* C6: when a non-traveler vote ends with result false and a tally other than
\* the about_to_die entry's, about_to_die stays as it was and no announcement
\* is edited.
C6_FailureKeeps ==
    [][C6_FailedNoTie =>
         /\ about_to_die' = about_to_die
         /\ msg_edits' = msg_edits]_vars

C6_Witness ==
    /\ Ended # None
    /\ ~EndedVote.traveler
    /\ ~EndedResult
    /\ EndedOldAboutToDie # None
    /\ EndedVote.votes # EndedOldAboutToDie[2]
    /\ about_to_die = EndedOldAboutToDie

\* ---- C7 (Spec)
C7_Majority2(order, gh, atd) ==
    LET living == Cardinality({i \in DOMAIN order : ~gh[order[i]]})
    IN  IF atd = None THEN living ELSE Max(living, 2 * atd[2] + 2)

C7_Constructed ==
    last'.op = "nominate" =>
        LET o == vobj'[Len(vobj')]
        IN  ~o.traveler => o.majority2 = C7_Majority2(o.order, ghost, about_to_die)

C7_Fixed == \A v \in Votes : vobj'[v].majority2 = vobj[v].majority2

C7_ResultAtEnd ==
    last'.ended # None =>
        LET o == vobj'[last'.ended[1]]
        IN  last'.ended[2] <=> (2 * o.votes >= o.majority2)

\* five living players, no about_to_die: majority 2.5, 3 yes pass, 2 yes fail
C7_ScenarioA ==
    LET order == InitialOrder(Seating(5), 2, FALSE)
        m2    == InitialMajority2(order, FALSE, [p \in Everyone |-> FALSE], None)
    IN  m2 = 5 /\ Result(3, m2) /\ ~Result(2, m2)

\* C7: the majority of a non-traveler vote is the greater of half the number
\* of order entries whose player is not a ghost and, when there is an
\* about_to_die entry, its tally plus one; it never changes after the
\* construction; and the result of the vote is true exactly when its final
\* tally is at least the majority.
C7_MajorityAndResult ==
    [][C7_Constructed /\ C7_Fixed /\ C7_ResultAtEnd /\ C7_ScenarioA]_vars

\* a non-traveler vote passed with a tally of exactly its majority, which the
\* about_to_die entry had raised
C7_Witness ==
    /\ Ended # None
    /\ ~EndedVote.traveler
    /\ EndedOldAboutToDie # None
    /\ 2 * EndedVote.votes = EndedVote.majority2
    /\ EndedResult

\* ---- C8 (SpecCtor)
NoDoubleVoters == statuses.can_vote_twice = {}

\* C8: with no double voters, the order of a vote on a seated player is the
\* seating order from the seat after the nominee round to the nominee, so
\* every seated player is in it once; the order of a vote on the storytellers
\* is the seating order as it is.
C8_Order ==
    NoDoubleVoters =>
        \A v \in Votes :
            LET o == vobj[v]
                n == Len(seating_order)
            IN  /\ Len(o.order) = n
                /\ o.storyteller => o.order = seating_order
                /\ ~o.storyteller =>
                       \A i \in 1 .. n :
                           o.order[i] = seating_order[((o.nominee + i) % n) + 1]
                /\ \A p \in Seated : Count(o.order, p) = 1

\* five seated players, the nominee in seat 2
C8_Witness ==
    /\ NoDoubleVoters
    /\ pc = "idle"
    /\ \E v \in Votes : vobj[v].nominee = 2 /\ vobj[v].order = <<3, 4, 0, 1, 2>>

\* ---- C9 (SpecCtor)
\* C9: a player who votes twice is in the order exactly twice, the duplicate
\* right before the player's own entry, and every other player once; in
\* particular the constructor gives nobody a third entry.
C9_DoubleVotersTwice ==
    \A v \in Votes : \A p \in Seated :
        Count(vobj[v].order, p) <= IF can_vote_twice(p) THEN 2 ELSE 1

\* ---- C10 (SpecCtor)
C10_DuplicatesInserted(o) ==
    \A p \in Range(o.order) : can_vote_twice(p) => Count(o.order, p) >= 2

\* C10 as claimed: the majority of a traveler vote is half the length of the
\* order with the duplicates of the double voters in it.
C10_MajorityOfFinalOrder ==
    \A v \in Votes :
        vobj[v].traveler /\ C10_DuplicatesInserted(vobj[v])
            => vobj[v].majority2 = Len(vobj[v].order)

\* C10: the majority of a traveler vote is half the number of seated players,
\* which is the length of the order before the duplicates of the double voters
\* are inserted; ghosts count and about_to_die does not.
C10_MajorityOfSeats ==
    \A v \in Votes :
        vobj[v].traveler => vobj[v].majority2 = Cardinality(Seated)

\* five seated players of whom one votes twice, an about_to_die entry and a
\* ghost: the order has grown to six entries and the majority is 2.5
C10_Witness ==
    \E v \in Votes :
        /\ vobj[v].traveler
        /\ Cardinality(Seated) = 5
        /\ Cardinality(statuses.can_vote_twice) = 1
        /\ Len(vobj[v].order) = 6
        /\ vobj[v].majority2 = 5
        /\ about_to_die # None
        /\ \E p \in Seated : ghost[p]

\* ---- C11 (Spec)
C11_NotCalled(voter) ==
    LET o == vobj[current_vote]
    IN  o.position < Len(o.order) => voter # o.order[o.position + 1]

\* C11: vote() by a voter who is not the currently-called voter changes
\* nothing of the vote, the players or the day, and calls no later voter.
C11_WrongVoterIgnored ==
    [][\A voter \in Seated, vt \in 0 .. 1 :
           Vote(voter, vt) /\ C11_NotCalled(voter) =>
               /\ UNCHANGED <<seating_order, ghost, dead_votes, nominations_today,
                              has_been_nominated, statuses, is_pms, is_noms,
                              past_votes, current_vote, about_to_die,
                              vote_end_messages, msg_edits, vobj, resolved>>
               /\ last'.accepted = 0]_vars

\* a vote out of turn came in after the first voter had voted yes
C11_Witness ==
    /\ last.op = "vote"
    /\ last.v # NoVote
    /\ last.accepted = 0
    /\ current_vote # NoVote
    /\ vobj[current_vote].position = 1
    /\ vobj[current_vote].votes = 1
    /\ Len(vobj[current_vote].order) > 1

\* ---- C12 (Spec)
\* cancel() took effect on a live vote in this step
C12_Cancelled == last'.op = "cancel" /\ last'.v # NoVote

C12_Refunded(o) ==
    nominations_today' =
        [nominations_today EXCEPT ![o.nominator] = @ - 1]

\* C12 as claimed: cancel() on a live vote refunds the nominator unless the
\* nominee is a traveler and the nominator is not a storyteller.
C12_RefundUnlessPlayerNominatedTraveler ==
    [][C12_Cancelled =>
         LET o == vobj[last'.v]
         IN  IF o.traveler /\ ~is_storyteller(o.nominator)
             THEN UNCHANGED nominations_today
             ELSE C12_Refunded(o)]_vars

\* C12: cancel() on a live vote takes one from the nominator's
\* nominations_today unless the nominee is a traveler (and not a storyteller),
\* whoever the nominator is: a storyteller who nominated a traveler is not
\* refunded.
C12_RefundUnlessTravelerNominee ==
    [][C12_Cancelled =>
         LET o == vobj[last'.v]
         IN  IF o.traveler /\ ~is_storyteller(o.nominee)
             THEN UNCHANGED nominations_today
             ELSE C12_Refunded(o)]_vars

\* the storytellers nominated a traveler and the vote was cancelled
C12_Witness ==
    /\ last.op = "cancel"
    /\ last.v # NoVote
    /\ vobj[last.v].traveler
    /\ is_storyteller(vobj[last.v].nominator)
    /\ nominations_today[ST] = 0

\* ---- C13 (SpecHooks)
RECURSIVE C13_Offset(_)
\* the number of hooks of the players in the seats before the i-th
C13_Offset(i) ==
    IF i = 1 THEN 0
    ELSE C13_Offset(i - 1) + 1 + Len(effects[seating_order[i - 1]])

C13_Valid(nominee, nominator) ==
    /\ CheckValidNominator(nominator, nominee)
    /\ CheckValidNominee(nominator, nominee)

C13_EveryHookOnceInOrder(vetoes) ==
    /\ Len(hook_calls') = C13_Offset(Len(seating_order) + 1)
    /\ \A i \in 1 .. Len(seating_order) :
           \A k \in 0 .. Len(effects[seating_order[i]]) :
               hook_calls'[C13_Offset(i) + k + 1] =
                   <<seating_order[i], k, <<seating_order[i], k>> \notin vetoes>>

C13_Vetoed == \E i \in 1 .. Len(hook_calls') : ~hook_calls'[i][3]

\* C13: once the validation has passed, nominate() calls the nomination hook
\* of every seated player's character and of each of the player's effects
\* exactly once, in seating order and then effect order, also after a veto; the
\* Vote is created exactly when no hook vetoed, and after a veto allowance,
\* has_been_nominated, the votes and the windows are as they were.
C13_AllHooksRun ==
    [][\A nominee \in Seated \cup {ST}, nominator \in Nominators :
         LET vetoes == {h \in Hooks : \E i \in 1 .. Len(hook_calls') :
                                         hook_calls'[i] = <<h[1], h[2], FALSE>>}
         IN  NominateHooks(nominee, nominator, vetoes)
             /\ C13_Valid(nominee, nominator) =>
               /\ C13_EveryHookOnceInOrder(vetoes)
               /\ Len(vobj') = Len(vobj) + 1 <=> ~C13_Vetoed
               /\ C13_Vetoed =>
                      UNCHANGED <<nominations_today, has_been_nominated, vobj,
                                  is_pms, is_noms, current_vote, past_votes>>]_vars

\* the first hook vetoed, and the hooks of the first player's effect, of the
\* second player's character and of that player's effect were called after it
C13_Witness ==
    /\ last.op = "nominate_failed"
    /\ Len(hook_calls) = 4
    /\ hook_calls[1] = <<0, 0, FALSE>>
    /\ hook_calls[2] = <<0, 1, TRUE>>
    /\ hook_calls[3] = <<1, 0, TRUE>>
    /\ hook_calls[4] = <<1, 1, TRUE>>

\* ---- C14 (SpecHooks)
C14_VetoesOfLog ==
    {h \in Hooks : \E i \in 1 .. Len(hook_calls') :
                       hook_calls'[i] = <<h[1], h[2], FALSE>>}

\* C14: nominate() raises AlreadyNominated exactly when the nominator has no
\* allowance left, the nominee is no traveler and the nominator no
\* storyteller; when it raises that or the nominee's ineligibility, no hook
\* has run, no Vote is created and the players and the day are unchanged.
C14_ValidationFailure ==
    [][\A nominee \in Seated \cup {ST}, nominator \in Nominators :
         NominateHooks(nominee, nominator, C14_VetoesOfLog) =>
           /\ outcome' = Raised("AlreadyNominated") <=>
                  /\ ~can_nominate(nominator)
                  /\ ~is_traveler(nominee)
                  /\ ~is_storyteller(nominator)
           /\ outcome'.raised # "none" =>
                  /\ hook_calls' = << >>
                  /\ UNCHANGED <<nominations_today, has_been_nominated, is_pms,
                                 is_noms, current_vote, vobj, past_votes,
                                 about_to_die, ghost, dead_votes, seating_order>>]_vars

\* a player whose nomination is used up tried to nominate during a vote
C14_Witness ==
    /\ outcome = Raised("AlreadyNominated")
    /\ last.op = "nominate_failed"
    /\ nominations_today[0] = NominationAllowance
    /\ current_vote # NoVote

\* ---- C15 (SpecDay)
\* Day.end has run its evening-cleanup hooks in this step
C15_HooksRun ==
    pc = "idle" /\ pc' = "day_end_cancel" =>
        /\ \A p \in Seated : \A k \in 1 .. Len(effects[p]) :
               Count(hook_calls', <<p, k, TRUE>>) = 1
        /\ UNCHANGED <<current_vote, past_votes, past_days, current_day,
                       has_been_nominated>>

\* Day.end has dealt with the live vote in this step
C15_Cancelled ==
    pc = "day_end_cancel" /\ pc' = "day_end_archive" /\ current_vote # NoVote =>
        /\ current_vote' = NoVote
        /\ Count(past_votes', current_vote) = 0
        /\ about_to_die' = about_to_die
        /\ ~has_been_nominated'[vobj[current_vote].nominee]
        /\ UNCHANGED <<past_days, current_day, effects>>

\* Day.end has archived the day in this step
C15_Archived ==
    pc = "day_end_archive" /\ pc' = "idle" =>
        /\ current_vote = NoVote
        /\ past_days = 0 /\ past_days' = 1
        /\ current_day /\ ~current_day'
        /\ UNCHANGED <<past_votes, about_to_die>>

C15_Once ==
    /\ past_days = (IF current_day THEN 0 ELSE 1)
    /\ \A v \in Votes : Count(resolved, <<v, "cancel">>) > 0 => Count(past_votes, v) = 0

\* C15: Day.end runs the evening-cleanup hooks, then cancels the live vote
\* (it is not archived in past_votes, about_to_die stays, the nominee's
\* has_been_nominated is cleared), then appends the day to past_days, once,
\* and clears current_day.
C15_DayEndCancels ==
    [] C15_Once /\ [][C15_HooksRun /\ C15_Cancelled /\ C15_Archived]_vars

\* the day ended on a live vote while another player was about to die and
\* the player in seat 0 was under an effect
C15_Witness ==
    /\ ~current_day
    /\ past_days = 1
    /\ last.op = "day_end_archive"
    /\ hook_calls # << >>
    /\ about_to_die # None
    /\ Len(past_votes) = 1
    /\ resolved = << <<1, "end">>, <<2, "cancel">> >>

\* ---- C16 (SpecEffects)
\* the counter of an effect is what it was given less the designated cleanup
\* calls so far, and at least one
C16_Counter ==
    \A p \in Seated : \A k \in 1 .. Len(effects[p]) :
        "days" \in DOMAIN effects[p][k] =>
            /\ effects[p][k].days = effects[p][k].initial - effects[p][k].calls
            /\ effects[p][k].days >= 1

C16_DesignatedCall(p, k, when) ==
    LET e == effects[p][k]
    IN  IF "days" \in DOMAIN e /\ e.calls + 1 < e.initial
        THEN /\ Len(effects'[p]) = Len(effects[p])
             /\ effects'[p][k].days = e.days - 1
        ELSE Len(effects'[p]) = Len(effects[p]) - 1

\* C16: at a designated cleanup call an effect with no day-counter is
\* deleted; an effect with day-counter N >= 1 survives the first N-1 calls,
\* each taking one from the counter, and is deleted at the N-th.
C16_ScheduledDeletion ==
    [] C16_Counter /\
    [][\A p \in Seated, k \in 1 .. MaxEffects, when \in {"evening", "morning"} :
           EffectCleanup(p, k, when) /\ effects[p][k].cleanup = when =>
               C16_DesignatedCall(p, k, when)]_vars

\* an effect with day-counter 2 has survived one cleanup call, and its
\* counter is 1
C16_Witness ==
    /\ last.op = "evening"
    /\ \E p \in Seated : \E k \in 1 .. Len(effects[p]) :
           /\ effects[p][k].cleanup = "evening"
           /\ "days" \in DOMAIN effects[p][k]
           /\ effects[p][k].initial = 2
           /\ effects[p][k].calls = 1
           /\ effects[p][k].days = 1

\* ---- C17 (SpecGate)
C17_NothingDone ==
    /\ body_calls' = << >>
    /\ outcome' = Returned("neutral")
    /\ UNCHANGED <<seating_order, ghost, dead_votes, nominations_today,
                   has_been_nominated, statuses, is_pms, is_noms, past_votes,
                   current_vote, about_to_die, vote_end_messages, msg_edits, vobj,
                   effects, impaired, past_days, current_day>>

C17_DrunkOrPoisoned(owner) ==
    owner \in impaired.drunk \cup impaired.poisoned

\* C17: when the functioning gate suppresses a call (the owner is dead, or is
\* drunk or poisoned and run_if_impaired is unset) or the once-per-day gate
\* does (the owner has used the ability), the ability's body is not called,
\* the game is unchanged and the neutral result is returned.
C17_SuppressedCall ==
    [][/\ \A owner \in Seated, run_if \in BOOLEAN, bug_report \in BOOLEAN :
            /\ FunctioningGatedCall(owner, run_if, bug_report)
            /\ (ghost[owner] \/ (C17_DrunkOrPoisoned(owner) /\ ~run_if))
            => C17_NothingDone
       /\ \A owner \in Seated, bug_report \in BOOLEAN :
            /\ OnetimeGatedCall(owner, bug_report)
            /\ owner \in impaired.used_ability
            => C17_NothingDone]_vars

\* the gate has just skipped the ability of the player in seat 0, who is alive
\* and poisoned, and returned the neutral result
C17_Witness ==
    /\ last.op = "if_functioning"
    /\ ~ghost[0] /\ 0 \in impaired.poisoned /\ 0 \notin impaired.drunk
    /\ functioning(1)
    /\ body_calls = << >>
    /\ outcome = Returned("neutral")

\* ---- C18 (SpecGate)
\* C18: under the functioning gate with run_if_impaired set, the ability of
\* an owner who is alive and drunk or poisoned is called through once, with
\* enabled false and an epithet naming the impairment; the ability of a dead
\* owner is not called through.
C18_ImpairedRuns ==
    [][\A owner \in Seated, bug_report \in BOOLEAN :
           FunctioningGatedCall(owner, TRUE, bug_report) =>
               /\ ~ghost[owner] /\ C17_DrunkOrPoisoned(owner) =>
                      /\ Len(body_calls') = 1
                      /\ body_calls'[1].owner = owner
                      /\ ~body_calls'[1].enabled
                      /\ body_calls'[1].epithet_string \in {"(drunk)", "(poisoned)"}
               /\ ghost[owner] => body_calls' = << >>]_vars

\* ---- C19 (SpecTarget)
\* C19: add_targeted_effect with allow_none set and a "none" synonym for an
\* answer completes without an error, attaches no effect and returns an empty
\* list of affected players; with a target that fails the eligibility
\* predicate it fails with InvalidMorningTarget and attaches nothing.
C19_NullTargetAccepted ==
    [][\A owner \in Seated, answer \in Answers, meets \in BOOLEAN,
          enabled \in BOOLEAN, dead \in BOOLEAN :
           AddTargetedEffect(owner, answer, TRUE, meets, enabled, dead) =>
               /\ answer = << >> =>
                      /\ outcome' = ReturnedPlayers(<< >>)
                      /\ effects' = effects
               /\ answer # << >> /\ ~meets =>
                      /\ outcome' = Raised("InvalidMorningTargetError")
                      /\ effects' = effects]_vars

\* ---- C20 (SpecPrevote)
\* C20: whenever about_to_die is set, its announcement id is one of
\* vote_end_messages, and its player and tally are the nominee and the final
\* tally of a non-traveler vote in past_votes whose result was true.
C20_AboutToDieValid ==
    about_to_die # None =>
        /\ Count(vote_end_messages, about_to_die[3]) > 0
        /\ \E i \in 1 .. Len(past_votes) :
               LET o == vobj[past_votes[i]]
               IN  /\ ~o.traveler
                   /\ o.nominee = about_to_die[1]
                   /\ o.votes = about_to_die[2]
                   /\ 2 * o.votes >= o.majority2

\* ---- C21 (Spec)
\* C21: whenever call_next() passes over a voter who cannot cast a vote, the
\* "no dead votes" notification goes to that same voter, at every position of
\* order, the last one included: no step raises IndexError in place of the
\* notification, and every notification's recipient is the voter passed over.
C21_NoticeToPassedOver ==
    [][/\ ~last'.raised
       /\ \A i \in 1 .. Len(last'.notices) :
              last'.notices[i][2] = last'.notices[i][1]]_vars

\* ---- C22 (SpecTurns)
\* C22: in the live vote, no player whose position in order has already been
\* passed is a key of prevotes.
C22_NoPassedPrevoter ==
    current_vote # NoVote =>
        LET o == vobj[current_vote]
        IN  \A p \in DOMAIN o.prevotes : Index(o.order, p) >= o.position

\* C22 as amended: prevotes changes only by a prevote() on the live vote, which
\* stores or overwrites the entry of one voter whose turn has not yet been
\* reached (never the currently-called voter, never one who was passed) and
\* removes nothing; an entry stays when its voter's turn has passed.
C22_StoredOnlyAhead ==
    [][\A v \in Votes :
          vobj'[v].prevotes # vobj[v].prevotes =>
              /\ last'.op = "prevote"
              /\ v = current_vote
              /\ \E p \in Seated, vt \in 0 .. 1 :
                     /\ Index(vobj[v].order, p) > vobj[v].position
                     /\ vobj'[v].prevotes = (p :> vt) @@ vobj[v].prevotes]_vars

\* the live vote has passed a voter whose prevote was applied and is still
\* recorded
C22_Witness ==
    /\ current_vote # NoVote
    /\ \E p \in DOMAIN vobj[current_vote].prevotes :
           /\ Index(vobj[current_vote].order, p) < vobj[current_vote].position
           /\ vobj[current_vote].prevotes[p] = 1
           /\ vobj[current_vote].voted # << >>

\* ---- C23 (SpecTurns)
\* the 0-based positions of order whose voters the step resolved without a
\* vote command: all those it passed, but the first when a vote was cast
C23_AutoResolved(v) ==
    LET first == IF last'.op = "call_next" THEN vobj[v].position
                 ELSE vobj[v].position + 1
    IN  first .. (vobj'[v].position - 1)

\* C23: a voter whose turn arrives with a recorded prevote and who can vote is
\* resolved at once with the value that the last prevote() stored for them; a
\* voter who cannot vote is resolved with a "no" whatever their prevote; and no
\* step leaves the vote waiting at a voter of either kind.
C23_PrevoteAtTurn ==
    [][/\ \A voter \in Seated, vt \in 0 .. 1 :
              ( /\ PrevoteBody(voter, vt)
                /\ Index(vobj[current_vote].order, voter)
                       > vobj[current_vote].position )
              => vobj'[current_vote].prevotes[voter] = vt
       /\ \A v \in Votes :
              LET o == vobj[v]
                  n == vobj'[v]
              IN  /\ \A k \in C23_AutoResolved(v) :
                         LET q == o.order[k + 1]
                         IN  IF can_vote(ghost, dead_votes, q, o.traveler)
                             THEN /\ q \in DOMAIN o.prevotes
                                  /\ (q \in Range(n.voted)) = (o.prevotes[q] = 1)
                             ELSE /\ q \notin Range(n.voted)
                                  /\ dead_votes'[q] = dead_votes[q]
                  /\ (n.position # o.position \/ last'.op = "call_next")
                     /\ n.position < Len(n.order)
                     => LET q == n.order[n.position + 1]
                        IN  /\ can_vote(ghost', dead_votes', q, n.traveler)
                            /\ q \notin DOMAIN n.prevotes]_vars

\* one vote command resolved three voters: the voter's own, a "no" for a
\* tokenless ghost whose prevote was yes, and the yes prevoted by a third
C23_Witness ==
    /\ last.op = "vote"
    /\ last.accepted = 3
    /\ \E q, r \in Seated :
           /\ q # r
           /\ ghost[q] /\ dead_votes[q] = 0
           /\ vobj[1].prevotes = (q :> 1) @@ (r :> 1)
           /\ q \notin Range(vobj[1].voted)
           /\ r \in Range(vobj[1].voted)

\* ---- C24 (SpecWindows)
\* C24: when a nomination installs its Vote as current_vote, is_pms and is_noms
\* are both false; right after end() or cancel() has taken effect on a live
\* vote both are true; and open_pms / close_pms change is_pms only, open_noms /
\* close_noms is_noms only.
C24_WindowsBracketVote ==
    [][/\ (current_vote' # NoVote /\ current_vote' # current_vote)
              => (~is_pms' /\ ~is_noms')
       /\ resolved' # resolved => (is_pms' /\ is_noms')
       /\ last'.op = "open_pms" => (is_pms' /\ is_noms' = is_noms)
       /\ last'.op = "close_pms" => (~is_pms' /\ is_noms' = is_noms)
       /\ last'.op = "open_noms" => (is_noms' /\ is_pms' = is_pms)
       /\ last'.op = "close_noms" => (~is_noms' /\ is_pms' = is_pms)]_vars

\* a first vote was resolved, which opened both windows, and a second
\* nomination has installed its vote with both closed
C24_Witness ==
    /\ Len(resolved) = 1
    /\ current_vote = 2
    /\ last.op = "call_next"
    /\ ~is_pms /\ ~is_noms

\* ---- C25 (SpecTarget)
\* C25: add_targeted_effect called with allow_none = false never obtains a
\* null target from select_target, whatever the answer: it does not reach
\* line 301 with target = None, where target.add_effect raises AttributeError.
C25_NoNullTargetUnlessAllowed ==
    [][\A owner \in Seated, answer \in Answers, meets \in BOOLEAN,
          enabled \in BOOLEAN, dead \in BOOLEAN :
           AddTargetedEffect(owner, answer, FALSE, meets, enabled, dead) =>
               outcome' # Raised("AttributeError")]_vars

C27_CancelledVoteFrozen ==
    [][\A v \in Votes :
          <<v, "cancel">> \in Range(resolved) =>
              /\ vobj'[v].position = vobj[v].position
              /\ vobj'[v].votes = vobj[v].votes
              /\ vobj'[v].voted = vobj[v].voted
              /\ dead_votes' = dead_votes
              /\ last'.accepted = 0]_vars

\* ---- C28 (Spec)
\* the votes that count for a player: constructed and not cancelled
C28_Standing(v) == <<v, "cancel">> \notin Range(resolved)

\* C28: cancel() takes back exactly what the nomination gave.  On a day that
\* began with no nominations, a player's nominations_today is therefore the
\* number of standing votes that the player's nominations of ordinary players
\* (neither traveler nor storyteller) began, never a negative number, and
\* has_been_nominated marks exactly the nominees of the standing votes.
C28_CancelRestores ==
    \A p \in Everyone :
        /\ nominations_today[p] >= 0
        /\ nominations_today[p] =
               Cardinality({v \in Votes :
                               /\ C28_Standing(v)
                               /\ vobj[v].nominator = p
                               /\ ~vobj[v].traveler
                               /\ ~vobj[v].storyteller})
        /\ has_been_nominated[p] =
               (\E v \in Votes : C28_Standing(v) /\ vobj[v].nominee = p)

\* ---- C29 (SpecPrevote)
\* C29: no player's dead-vote count is ever negative.
C29_DeadVotesNotNegative == \A p \in Everyone : dead_votes[p] >= 0

\* ---- C30 (Spec)
\* C30: a live vote stops being current_vote only by its own end() or
\* cancel() taking effect in that step; in particular no nomination replaces
\* a live vote by a new one.
C30_OnlyEndOrCancelUnsets ==
    [][(current_vote # NoVote /\ current_vote' # current_vote) =>
           /\ Len(resolved') = Len(resolved) + 1
           /\ resolved'[Len(resolved')][1] = current_vote]_vars

\* ---- C31 (SpecTurnsFair)
C31_EndedOnce(v) == Count(resolved, <<v, "end">>) = 1

C31_Cancelled(v) == <<v, "cancel">> \in Range(resolved)

\* C31: the day's vote, once live, is resolved if its called voters all vote
\* in the end, unless it is cancelled: end() takes effect exactly once, with position at
\* len(order), the vote in past_votes and current_vote cleared; and a live vote
\* never waits at a voter who cannot vote or whose prevote is recorded.
C31_LiveVoteResolves ==
    /\ (current_vote # NoVote) ~>
           \/ C31_Cancelled(1)
           \/ /\ C31_EndedOnce(1)
              /\ vobj[1].position = Len(vobj[1].order)
              /\ past_votes = <<1>>
              /\ current_vote = NoVote
    /\ [](current_vote # NoVote =>
             LET o == vobj[current_vote]
                 q == o.order[o.position + 1]
             IN  /\ o.position < Len(o.order)
                 /\ can_vote(ghost, dead_votes, q, o.traveler)
                 /\ q \notin DOMAIN o.prevotes)

\* the vote was resolved by a vote command that passed over a tokenless ghost
\* and ended the vote with the last voter's prevote
C31_Witness ==
    /\ last.op = "vote"
    /\ last.accepted = 3
    /\ C31_EndedOnce(1)
    /\ past_votes = <<1>>
    /\ current_vote = NoVote
    /\ \E q \in Seated : ghost[q] /\ dead_votes[q] = 0 /\ q \in Range(vobj[1].order)
    /\ DOMAIN vobj[1].prevotes # {}

====
